---- MODULE Spec2Model ----
(***************************************************************************)
(* Model of the helper functions of randomforest.py:                       *)
(*   build_rating_matrix, create_learning_matrices, make_submission.       *)
(* A sparse matrix is a record [shape, format, entries]; entries is the    *)
(* sequence of stored <<row, column, value>> coordinates in the storage    *)
(* order of the format (COO: input order, CSR: row-major, CSC:             *)
(* column-major).  The dense value of a cell is the sum of the entries     *)
(* stored at it, 0 when none is stored.                                    *)
(***************************************************************************)
EXTENDS Integers, Sequences, FiniteSets, TLC

\* ---------------------------------------------------------------- bounds
MaxUser == 1
MaxMovie == 1
MaxRating == 2
MaxTriplets == 2
MaxPairs == 2
MaxPredictions == 2

VARIABLES
    user_movie_rating_triplets, \* argument of build_rating_matrix
    rating_matrix,              \* R, the result of build_rating_matrix
    user_movie_pairs,           \* argument of create_learning_matrices
    X,                          \* result of create_learning_matrices
    stage,                      \* position in the matrix pipeline
    raised,                     \* exception that ended the last call, or "none"
    y_predict,                  \* argument of make_submission
    user_movie_ids,             \* argument of make_submission
    file,                       \* lines of the submission file on disk
    pos,                        \* number of zip() items consumed by the loop
    pc                          \* position inside make_submission

vars == <<user_movie_rating_triplets, rating_matrix, user_movie_pairs, X, stage,
          raised, y_predict, user_movie_ids, file, pos, pc>>

matrix_vars == <<user_movie_rating_triplets, rating_matrix, user_movie_pairs, X,
                 stage, raised>>

submission_vars == <<y_predict, user_movie_ids, file, pos, pc>>

\* ---------------------------------------------------------------- helpers
Range(s) == {s[k] : k \in DOMAIN s}

Max(S) == CHOOSE x \in S : \A y \in S : y <= x

SeqsUpTo(S, n) == UNION {[1..k -> S] : k \in 0..n}

\* a[:, c] of a two-dimensional array held as a sequence of rows (c is 0-based)
Column(a, c) == [k \in DOMAIN a |-> a[k][c + 1]]

None == [shape |-> <<0, 0>>, format |-> "none", entries |-> <<>>]

\* ------------------------------------------------- scipy.sparse operations
\* sum of the values stored at cell (i, j)
RECURSIVE CellSum(_, _, _)
CellSum(entries, i, j) ==
    IF entries = <<>> THEN 0
    ELSE (IF Head(entries)[1] = i /\ Head(entries)[2] = j THEN Head(entries)[3] ELSE 0)
         + CellSum(Tail(entries), i, j)

\* value stored last at cell (i, j)
RECURSIVE CellLast(_, _, _)
CellLast(entries, i, j) ==
    IF entries = <<>> THEN 0
    ELSE LET n == Len(entries)
             last == entries[n]
         IN IF last[1] = i /\ last[2] = j THEN last[3]
            ELSE CellLast(SubSeq(entries, 1, n - 1), i, j)

Stored(entries, i, j) == \E k \in DOMAIN entries : entries[k][1] = i /\ entries[k][2] = j

\* the dense view A[i, j]
At(A, i, j) == CellSum(A.entries, i, j)

\* coo_matrix((data, (rows, cols))): the shape is inferred from the largest indices
coo_matrix(data, rows, cols) ==
    IF Len(rows) = 0 \/ Len(cols) = 0
    THEN [raised |-> "ValueError", value |-> None]
    ELSE [raised |-> "none",
          value |-> [shape |-> <<Max(Range(rows)) + 1, Max(Range(cols)) + 1>>,
                     format |-> "coo",
                     entries |-> [k \in DOMAIN data |-> <<rows[k], cols[k], data[k]>>]]]

\* row-major compression: one entry per stored cell, duplicates summed
RECURSIVE CsrEntries(_, _, _, _)
CsrEntries(entries, M, N, c) ==
    IF c >= M * N THEN <<>>
    ELSE LET i == c \div N
             j == c % N
         IN (IF Stored(entries, i, j) THEN << <<i, j, CellSum(entries, i, j)>> >> ELSE <<>>)
            \o CsrEntries(entries, M, N, c + 1)

RECURSIVE CsrEntriesLastWins(_, _, _, _)
CsrEntriesLastWins(entries, M, N, c) ==
    IF c >= M * N THEN <<>>
    ELSE LET i == c \div N
             j == c % N
         IN (IF Stored(entries, i, j) THEN << <<i, j, CellLast(entries, i, j)>> >> ELSE <<>>)
            \o CsrEntriesLastWins(entries, M, N, c + 1)

\* column-major compression
RECURSIVE CscEntries(_, _, _, _)
CscEntries(entries, M, N, c) ==
    IF c >= M * N THEN <<>>
    ELSE LET j == c \div M
             i == c % M
         IN (IF Stored(entries, i, j) THEN << <<i, j, CellSum(entries, i, j)>> >> ELSE <<>>)
            \o CscEntries(entries, M, N, c + 1)

tocsr_last_write_wins(A) ==
    [shape |-> A.shape, format |-> "csr",
     entries |-> CsrEntriesLastWins(A.entries, A.shape[1], A.shape[2], 0)]

tocsr(A) ==
    [shape |-> A.shape, format |-> "csr",
     entries |-> CsrEntries(A.entries, A.shape[1], A.shape[2], 0)]

tocsc(A) ==
    [shape |-> A.shape, format |-> "csc",
     entries |-> CscEntries(A.entries, A.shape[1], A.shape[2], 0)]

\* bounds check of an index array: an index in -length .. -1 counts from the end
asindices(idx, length) ==
    IF \E k \in DOMAIN idx : idx[k] >= length \/ idx[k] < -length
    THEN [raised |-> "IndexError", value |-> <<>>]
    ELSE [raised |-> "none",
          value |-> [k \in DOMAIN idx |-> IF idx[k] < 0 THEN idx[k] + length ELSE idx[k]]]

\* the entries of row i, renumbered as row k
RowAs(entries, i, k) ==
    LET row == SelectSeq(entries, LAMBDA t : t[1] = i)
    IN [n \in DOMAIN row |-> <<k, row[n][2], row[n][3]>>]

\* the entries of column j, renumbered as column k
ColumnAs(entries, j, k) ==
    LET col == SelectSeq(entries, LAMBDA t : t[2] = j)
    IN [n \in DOMAIN col |-> <<col[n][1], k, col[n][3]>>]

RECURSIVE GatherRows(_, _, _)
GatherRows(entries, idx, k) ==
    IF k > Len(idx) THEN <<>>
    ELSE RowAs(entries, idx[k], k - 1) \o GatherRows(entries, idx, k + 1)

RECURSIVE GatherColumns(_, _, _)
GatherColumns(entries, idx, k) ==
    IF k > Len(idx) THEN <<>>
    ELSE ColumnAs(entries, idx[k], k - 1) \o GatherColumns(entries, idx, k + 1)

\* A[idx] on a CSR matrix: row k of the result is row idx[k] of A
getrows(A, idx) ==
    [shape |-> <<Len(idx), A.shape[2]>>, format |-> "csr",
     entries |-> GatherRows(A.entries, idx, 1)]

\* A[:, idx] on a CSC matrix: column k of the result is column idx[k] of A
getcolumns(A, idx) ==
    [shape |-> <<A.shape[1], Len(idx)>>, format |-> "csc",
     entries |-> GatherColumns(A.entries, idx, 1)]

\* the transpose of a CSC matrix is a CSR matrix over the same storage
transpose(A) ==
    [shape |-> <<A.shape[2], A.shape[1]>>,
     format |-> IF A.format = "csc" THEN "csr" ELSE "csc",
     entries |-> [n \in DOMAIN A.entries |->
                    <<A.entries[n][2], A.entries[n][1], A.entries[n][3]>>]]

\* sparse.hstack((A, B)): the blocks side by side, as a COO matrix
hstack(A, B) ==
    IF A.shape[1] # B.shape[1]
    THEN [raised |-> "ValueError", value |-> None]
    ELSE [raised |-> "none",
          value |-> [shape |-> <<A.shape[1], A.shape[2] + B.shape[2]>>,
                     format |-> "coo",
                     entries |-> A.entries \o
                                 [n \in DOMAIN B.entries |->
                                    <<B.entries[n][1], B.entries[n][2] + A.shape[2],
                                      B.entries[n][3]>>]]]

\* ------------------------------------------------------ randomforest.py
\* the row part and the column part of the learning matrix in the wrong order
create_learning_matrices_columns_first(R, pairs) ==
    LET csr == tocsr(R)
        users == asindices(Column(pairs, 0), csr.shape[1])
        csc == tocsc(csr)
        movies == asindices(Column(pairs, 1), csc.shape[2])
    IN IF users.raised # "none" THEN [raised |-> users.raised, value |-> None]
       ELSE IF movies.raised # "none" THEN [raised |-> movies.raised, value |-> None]
       ELSE LET stacked == hstack(transpose(getcolumns(csc, movies.value)),
                                  getrows(csr, users.value))
            IN IF stacked.raised # "none" THEN stacked
               ELSE [raised |-> "none", value |-> tocsr(stacked.value)]

\* the rows gathered in ascending order of the query's user id
RECURSIVE SortedByUser(_)
SortedByUser(pairs) ==
    IF pairs = <<>> THEN <<>>
    ELSE LET k == CHOOSE a \in DOMAIN pairs :
                    \A b \in DOMAIN pairs :
                        pairs[a][1] < pairs[b][1] \/ (pairs[a][1] = pairs[b][1] /\ a <= b)
         IN <<pairs[k]>> \o
            SortedByUser(SubSeq(pairs, 1, k - 1) \o SubSeq(pairs, k + 1, Len(pairs)))

create_learning_matrices_sorted(R, pairs) ==
    LET csr == tocsr(R)
        sorted == SortedByUser(pairs)
        users == asindices(Column(sorted, 0), csr.shape[1])
        csc == tocsc(csr)
        movies == asindices(Column(sorted, 1), csc.shape[2])
    IN IF users.raised # "none" THEN [raised |-> users.raised, value |-> None]
       ELSE IF movies.raised # "none" THEN [raised |-> movies.raised, value |-> None]
       ELSE LET stacked == hstack(getrows(csr, users.value),
                                  transpose(getcolumns(csc, movies.value)))
            IN IF stacked.raised # "none" THEN stacked
               ELSE [raised |-> "none", value |-> tocsr(stacked.value)]

\* the matrix with rows and columns exchanged
build_rating_matrix_transposed(triplets) ==
    LET rows == Column(triplets, 1)
        cols == Column(triplets, 0)
        training_ratings == Column(triplets, 2)
        coo == coo_matrix(training_ratings, rows, cols)
    IN IF coo.raised # "none" THEN coo
       ELSE [raised |-> "none", value |-> tocsr(coo.value)]

build_rating_matrix(triplets) ==
    LET rows == Column(triplets, 0)
        cols == Column(triplets, 1)
        training_ratings == Column(triplets, 2)
        coo == coo_matrix(training_ratings, rows, cols)
    IN IF coo.raised # "none" THEN coo
       ELSE [raised |-> "none", value |-> tocsr(coo.value)]

create_learning_matrices(R, pairs) ==
    LET csr == tocsr(R)
        users == asindices(Column(pairs, 0), csr.shape[1])
        csc == tocsc(csr)
        movies == asindices(Column(pairs, 1), csc.shape[2])
    IN IF users.raised # "none" THEN [raised |-> users.raised, value |-> None]
       ELSE IF movies.raised # "none" THEN [raised |-> movies.raised, value |-> None]
       ELSE LET user_features == getrows(csr, users.value)
                movie_features == transpose(getcolumns(csc, movies.value))
                stacked == hstack(user_features, movie_features)
            IN IF stacked.raised # "none" THEN stacked
               ELSE [raised |-> "none", value |-> tocsr(stacked.value)]

\* ---------------------------------------------------------------- inputs
Triplets == (0..MaxUser) \X (0..MaxMovie) \X (1..MaxRating)

TripletSeqs == SeqsUpTo(Triplets, MaxTriplets)

NoDuplicatePair(triplets) ==
    \A a, b \in DOMAIN triplets :
        (triplets[a][1] = triplets[b][1] /\ triplets[a][2] = triplets[b][2]) => a = b

\* query pairs inside the dimensions of R
InRangePairs(R) == (0..(R.shape[1] - 1)) \X (0..(R.shape[2] - 1))

\* query pairs one step beyond the dimensions of R on either side
AnyPairs(R) == ((-(R.shape[1] + 1))..R.shape[1]) \X ((-(R.shape[2] + 1))..R.shape[2])

SubmissionIdle ==
    /\ y_predict = <<>>
    /\ user_movie_ids = <<>>
    /\ file = <<>>
    /\ pos = 0
    /\ pc = "idle"

MatrixIdle ==
    /\ user_movie_rating_triplets = <<>>
    /\ rating_matrix = None
    /\ user_movie_pairs = <<>>
    /\ X = None
    /\ stage = "idle"
    /\ raised = "none"

\* ---------------------------------------------------------------- actions
Init ==
    /\ user_movie_rating_triplets \in TripletSeqs
    /\ rating_matrix = None
    /\ user_movie_pairs = <<>>
    /\ X = None
    /\ stage = "input"
    /\ raised = "none"
    /\ SubmissionIdle

BuildRatingMatrix ==
    /\ stage = "input"
    /\ LET r == build_rating_matrix(user_movie_rating_triplets)
       IN /\ rating_matrix' = r.value
          /\ raised' = r.raised
          /\ stage' = IF r.raised = "none" THEN "built" ELSE "failed"
    /\ UNCHANGED <<user_movie_rating_triplets, user_movie_pairs, X>>
    /\ UNCHANGED submission_vars

Next == BuildRatingMatrix

Spec == Init /\ [][Next]_vars

\* a rating of its own for every cell, so that a misplaced entry shows
CellRating(u, m) == 1 + u * (MaxMovie + 1) + m

\* triplets of distinct cells, each with the rating of its cell
CellTriplets ==
    {[k \in DOMAIN cells |-> <<cells[k][1], cells[k][2], CellRating(cells[k][1], cells[k][2])>>] :
        cells \in SeqsUpTo((0..MaxUser) \X (0..MaxMovie), MaxTriplets)}

\* a rating matrix handed to create_learning_matrices
InitLearn ==
    /\ \E t \in CellTriplets :
          /\ NoDuplicatePair(t)
          /\ t # <<>>
          /\ rating_matrix = build_rating_matrix(t).value
    /\ user_movie_rating_triplets = <<>>
    /\ user_movie_pairs = <<>>
    /\ X = None
    /\ stage = "built"
    /\ raised = "none"
    /\ SubmissionIdle

Learn(pairs) ==
    /\ stage = "built"
    /\ LET r == create_learning_matrices(rating_matrix, pairs)
       IN /\ X' = r.value
          /\ raised' = r.raised
          /\ stage' = IF r.raised = "none" THEN "learned" ELSE "failed"
    /\ user_movie_pairs' = pairs
    /\ UNCHANGED <<user_movie_rating_triplets, rating_matrix>>
    /\ UNCHANGED submission_vars

CreateLearningMatrices ==
    \E pairs \in SeqsUpTo(InRangePairs(rating_matrix), MaxPairs) : Learn(pairs)

CreateLearningMatricesAnyIds ==
    \E pairs \in SeqsUpTo(AnyPairs(rating_matrix), MaxPairs) : Learn(pairs)

NextLearn == CreateLearningMatrices

SpecLearn == InitLearn /\ [][NextLearn]_vars

NextRange == CreateLearningMatricesAnyIds

SpecRange == InitLearn /\ [][NextRange]_vars

\* ------------------------------------------------------- make_submission
\* a prediction is NaN or a decimal number, held in tenths
NaN == [kind |-> "nan", tenths |-> 0]

Number(t) == [kind |-> "number", tenths |-> t]

\* 3.7 and 4.2
Predictions == {NaN, Number(37), Number(42)}

SubmissionIds == ((0..MaxUser) \cup {10}) \X (0..MaxMovie)

Digits == <<"0", "1", "2", "3", "4", "5", "6", "7", "8", "9">>

\* '{:d}'.format(n)
RECURSIVE format_d(_)
format_d(n) ==
    IF n < 0 THEN "-" \o format_d(-n)
    ELSE IF n < 10 THEN Digits[n + 1]
    ELSE format_d(n \div 10) \o Digits[(n % 10) + 1]

\* '{}'.format(prediction)
format_float(prediction) ==
    IF prediction.kind = "nan" THEN "nan"
    ELSE format_d(prediction.tenths \div 10) \o "." \o Digits[(prediction.tenths % 10) + 1]

np_isnan_never(prediction) == FALSE

np_isnan(prediction) == prediction.kind = "nan"

format_line_movie_first(user_id, movie_id, prediction) ==
    format_d(movie_id) \o "_" \o format_d(user_id) \o "," \o format_float(prediction)

\* '{:d}_{:d},{}\n'.format(user_id, movie_id, prediction), without the newline
format_line(user_id, movie_id, prediction) ==
    format_d(user_id) \o "_" \o format_d(movie_id) \o "," \o format_float(prediction)

Header == "\"USER_ID_MOVIE_ID\",\"PREDICTED_RATING\""

\* a check of the whole prediction array instead of the current item
any_prediction_isnan(predictions, k) ==
    \E n \in DOMAIN predictions : np_isnan(predictions[n])

\* np.isnan(prediction) for the k-th item of the zip
prediction_isnan(predictions, k) == np_isnan(predictions[k])

\* number of items zip(user_movie_ids, y_predict) yields
zip_len(ids, predictions) ==
    IF Len(ids) < Len(predictions) THEN Len(ids) ELSE Len(predictions)

\* content of a file of that name left by an earlier run
Stale == <<Header, "0_0,1.0">>

InitSubmission ==
    /\ y_predict \in SeqsUpTo(Predictions, MaxPredictions)
    /\ user_movie_ids \in SeqsUpTo(SubmissionIds, MaxPairs)
    /\ file \in {<<>>, Stale}
    /\ pos = 0
    /\ pc = "start"
    /\ MatrixIdle

\* open(file_name, 'w') truncates; the header is the first write
OpenAndWriteHeader ==
    /\ pc = "start"
    /\ file' = <<Header>>
    /\ pc' = "loop"
    /\ UNCHANGED <<y_predict, user_movie_ids, pos>>
    /\ UNCHANGED matrix_vars

WriteLine ==
    /\ pc = "loop"
    /\ pos < zip_len(user_movie_ids, y_predict)
    /\ ~prediction_isnan(y_predict, pos + 1)
    /\ file' = Append(file, format_line(user_movie_ids[pos + 1][1],
                                        user_movie_ids[pos + 1][2],
                                        y_predict[pos + 1]))
    /\ pos' = pos + 1
    /\ UNCHANGED <<y_predict, user_movie_ids, pc>>
    /\ UNCHANGED matrix_vars

\* the exception that discards what was written
RaiseValueErrorAndRemove ==
    /\ pc = "loop"
    /\ pos < zip_len(user_movie_ids, y_predict)
    /\ prediction_isnan(y_predict, pos + 1)
    /\ pc' = "raised"
    /\ file' = <<>>
    /\ UNCHANGED <<y_predict, user_movie_ids, pos>>
    /\ UNCHANGED matrix_vars

\* the exception leaves the with block, which closes the file as written so far
RaiseValueError ==
    /\ pc = "loop"
    /\ pos < zip_len(user_movie_ids, y_predict)
    /\ prediction_isnan(y_predict, pos + 1)
    /\ pc' = "raised"
    /\ UNCHANGED <<y_predict, user_movie_ids, file, pos>>
    /\ UNCHANGED matrix_vars

Return ==
    /\ pc = "loop"
    /\ pos >= zip_len(user_movie_ids, y_predict)
    /\ pc' = "returned"
    /\ UNCHANGED <<y_predict, user_movie_ids, file, pos>>
    /\ UNCHANGED matrix_vars

NextSubmission ==
    \/ OpenAndWriteHeader
    \/ WriteLine
    \/ RaiseValueError
    \/ Return

SpecSubmission == InitSubmission /\ [][NextSubmission]_vars

\* ------------------------------------------------- properties: the matrices
\* row i of A as a dense sequence
DenseRow(A, i) == [j \in 1..A.shape[2] |-> At(A, i, j - 1)]

\* column j of A as a dense sequence
DenseColumn(A, j) == [i \in 1..A.shape[1] |-> At(A, i - 1, j)]

RECURSIVE SumRatings(_, _, _)
SumRatings(triplets, u, m) ==
    IF triplets = <<>> THEN 0
    ELSE LET t == Head(triplets)
         IN (IF t[1] = u /\ t[2] = m THEN t[3] ELSE 0) + SumRatings(Tail(triplets), u, m)

Built == stage \in {"built", "failed"} /\ user_movie_pairs = <<>> /\ X = None

\* what build_rating_matrix has to return for triplets without a duplicate pair
RatingMatrixOf(triplets) ==
    /\ raised = "none"
    /\ stage = "built"
    /\ rating_matrix.shape = <<Max({triplets[k][1] : k \in DOMAIN triplets}) + 1,
                               Max({triplets[k][2] : k \in DOMAIN triplets}) + 1>>
    /\ \A k \in DOMAIN triplets :
          At(rating_matrix, triplets[k][1], triplets[k][2]) = triplets[k][3]
    /\ \A u \in 0..(rating_matrix.shape[1] - 1), m \in 0..(rating_matrix.shape[2] - 1) :
          (\A k \in DOMAIN triplets : <<triplets[k][1], triplets[k][2]>> # <<u, m>>)
              => At(rating_matrix, u, m) = 0

\* C1 as stated: for every sequence of triplets without a duplicate (u, m) pair,
\* build_rating_matrix returns R of shape (max u + 1) x (max m + 1) with
\* R[u, m] = r for every triplet and 0 for every other cell.
C1_EveryUniqueSequence ==
    (Built /\ NoDuplicatePair(user_movie_rating_triplets))
        => RatingMatrixOf(user_movie_rating_triplets)

\* C1 amended: the same for every non-empty sequence of triplets without a
\* duplicate pair; an empty sequence raises ValueError, no shape can be inferred.
C1_NonEmptyUniqueSequence ==
    /\ (Built /\ NoDuplicatePair(user_movie_rating_triplets)
              /\ user_movie_rating_triplets # <<>>)
           => RatingMatrixOf(user_movie_rating_triplets)
    /\ (Built /\ user_movie_rating_triplets = <<>>)
           => (stage = "failed" /\ raised = "ValueError")

C1_Witness ==
    /\ stage = "built"
    /\ NoDuplicatePair(user_movie_rating_triplets)
    /\ Len(user_movie_rating_triplets) = 2
    /\ rating_matrix.shape = <<2, 2>>
    /\ user_movie_rating_triplets[1][3] # user_movie_rating_triplets[2][3]

HasDuplicatePair(triplets) == ~NoDuplicatePair(triplets)

\* C7: with several triplets for one (user, movie) pair the last one wins:
\* R[u, m] is the rating of the last triplet of the pair in input order.
C7_LastWriteWins ==
    (stage = "built" /\ HasDuplicatePair(user_movie_rating_triplets))
        => \A k \in DOMAIN user_movie_rating_triplets :
              LET t == user_movie_rating_triplets[k]
              IN (\A l \in DOMAIN user_movie_rating_triplets :
                     (l > k) => <<user_movie_rating_triplets[l][1],
                                  user_movie_rating_triplets[l][2]>> # <<t[1], t[2]>>)
                 => At(rating_matrix, t[1], t[2]) = t[3]

InRange(R, pair) ==
    /\ pair[1] \in 0..(R.shape[1] - 1)
    /\ pair[2] \in 0..(R.shape[2] - 1)

Learned == stage \in {"learned", "failed"}

\* the example of the specification: R from {(0,0,5),(1,1,3)}, queries [(0,1),(1,0)]
ExampleR == build_rating_matrix(<< <<0, 0, 5>>, <<1, 1, 3>> >>).value

ExampleX == create_learning_matrices(ExampleR, << <<0, 1>>, <<1, 0>> >>).value

\* C2: for in-range query pairs X has one row per pair and n_users + n_movies
\* columns; row i is the row R[u_i, :] followed by the column R[:, m_i].
C2_RowThenColumn ==
    (Learned /\ \A k \in DOMAIN user_movie_pairs : InRange(rating_matrix, user_movie_pairs[k]))
        => /\ stage = "learned"
           /\ raised = "none"
           /\ X.shape = <<Len(user_movie_pairs),
                          rating_matrix.shape[1] + rating_matrix.shape[2]>>
           /\ \A i \in DOMAIN user_movie_pairs :
                 DenseRow(X, i - 1)
                   = DenseRow(rating_matrix, user_movie_pairs[i][1])
                     \o DenseColumn(rating_matrix, user_movie_pairs[i][2])
           /\ DenseRow(ExampleX, 0) = <<5, 0, 0, 3>>
           /\ DenseRow(ExampleX, 1) = <<0, 3, 5, 0>>
           /\ ExampleX.shape = <<2, 4>>

C2_Witness ==
    /\ stage = "learned"
    /\ rating_matrix.shape = <<1, 2>>
    /\ Len(rating_matrix.entries) = 2
    /\ rating_matrix.entries[1][3] # rating_matrix.entries[2][3]
    /\ user_movie_pairs = << <<0, 1>>, <<0, 1>> >>
    /\ X.shape = <<2, 3>>

\* C3: permuting the query pairs permutes the rows of X the same way; rows are
\* neither sorted, dropped nor regrouped.
C3_RowOrderIsQueryOrder ==
    (Learned /\ \A k \in DOMAIN user_movie_pairs : InRange(rating_matrix, user_movie_pairs[k]))
        => \A p \in Permutations(DOMAIN user_movie_pairs) :
              LET permuted == [k \in DOMAIN user_movie_pairs |-> user_movie_pairs[p[k]]]
                  r == create_learning_matrices(rating_matrix, permuted)
              IN /\ stage = "learned"
                 /\ r.raised = "none"
                 /\ r.value.shape = X.shape
                 /\ X.shape[1] = Len(user_movie_pairs)
                 /\ \A k \in DOMAIN user_movie_pairs :
                       DenseRow(r.value, k - 1) = DenseRow(X, p[k] - 1)

C3_Witness ==
    /\ stage = "learned"
    /\ Len(user_movie_pairs) = 2
    /\ user_movie_pairs[1][1] > user_movie_pairs[2][1]
    /\ DenseRow(X, 0) # DenseRow(X, 1)

\* C6: a query pair with a user id outside 0..n_users-1 or a movie id outside
\* 0..n_movies-1, negative ids included, ends create_learning_matrices with an
\* out-of-range indexing error and no feature matrix.
C6_OutOfRangeRaises ==
    (Learned /\ \E k \in DOMAIN user_movie_pairs : ~InRange(rating_matrix, user_movie_pairs[k]))
        => (stage = "failed" /\ raised = "IndexError" /\ X = None)

\* ---------------------------------------------- properties: make_submission
\* the decimal text of the ids in use, written out
DecimalText == <<"0", "1", "2", "3", "4", "5", "6", "7", "8", "9", "10", "11", "12">>

PredictionText(prediction) ==
    IF prediction = Number(37) THEN "3.7"
    ELSE IF prediction = Number(42) THEN "4.2"
    ELSE "nan"

\* '{u}_{m},{prediction}' for the k-th pair and the k-th prediction
ExpectedLine(k) ==
    DecimalText[user_movie_ids[k][1] + 1] \o "_" \o DecimalText[user_movie_ids[k][2] + 1]
        \o "," \o PredictionText(y_predict[k])

ExpectedLines(n) == [k \in 1..n |-> ExpectedLine(k)]

Paired ==
    1..(IF Len(user_movie_ids) < Len(y_predict) THEN Len(user_movie_ids) ELSE Len(y_predict))

PairedNaN == \E k \in Paired : y_predict[k] = NaN

\* 1-based position of the first NaN prediction that has a query pair
FirstNaN == CHOOSE k \in Paired : y_predict[k] = NaN /\ \A l \in 1..(k - 1) : y_predict[l] # NaN

\* the lines a NaN prediction would give
NaNLines == {DecimalText[id[1] + 1] \o "_" \o DecimalText[id[2] + 1] \o ",nan" : id \in SubmissionIds}

\* C4: with n pairs and n predictions, none NaN, the file is the header followed
\* by the n lines '{u_i}_{m_i},{prediction_i}' in input order; the header is
\* written first and once.
C4_HeaderThenOneLinePerPair ==
    (Len(user_movie_ids) = Len(y_predict) /\ ~PairedNaN /\ pc # "start")
        => /\ pc \in {"loop", "returned"}
           /\ file = <<Header>> \o ExpectedLines(pos)
           /\ \A k \in 2..Len(file) : file[k] # Header
           /\ pc = "returned" => pos = Len(user_movie_ids)
           /\ (pc = "returned" /\ user_movie_ids = << <<0, 0>>, <<1, 1>> >>
                               /\ y_predict = <<Number(42), Number(37)>>)
                 => file = <<Header, "0_0,4.2", "1_1,3.7">>

C4_Witness ==
    /\ pc = "returned"
    /\ user_movie_ids = << <<10, 1>>, <<0, 0>> >>
    /\ y_predict = <<Number(42), Number(37)>>
    /\ file = <<Header, "10_1,4.2", "0_0,3.7">>

\* C5: when a prediction paired with a query pair is NaN, make_submission ends
\* by raising instead of returning, and no line with a NaN prediction is written.
C5_NaNRaises ==
    PairedNaN
        => /\ pc # "returned"
           /\ pos < FirstNaN
           /\ pc # "start" => \A k \in DOMAIN file : file[k] \notin NaNLines
           /\ (pc = "loop" /\ pos = FirstNaN - 1)
                 => (ENABLED RaiseValueError /\ ~ENABLED WriteLine /\ ~ENABLED Return)

C5_Witness ==
    /\ pc = "raised"
    /\ Len(y_predict) = 2
    /\ Len(user_movie_ids) = 2
    /\ y_predict[2] = NaN
    /\ Len(file) = 2

\* C9: when the first NaN prediction is at 0-based position k, the file holds,
\* at the moment of the error, the header and exactly the k lines of the pairs
\* before k, in order; it is not removed or rolled back.
C9_FileKeptUpToFirstNaN ==
    pc = "raised"
        => /\ PairedNaN
           /\ pos = FirstNaN - 1
           /\ file = <<Header>> \o ExpectedLines(FirstNaN - 1)

C9_Witness ==
    /\ pc = "raised"
    /\ FirstNaN = 2
    /\ file = <<Header>> \o ExpectedLines(1)
    /\ Len(file) = 2

\* C10: with sequences of different lengths and no paired NaN, make_submission
\* raises nothing and writes min(len(predictions), len(pairs)) lines, paired by
\* position; the surplus is ignored, a NaN among surplus predictions included.
C10_ZipTruncates ==
    (Len(user_movie_ids) # Len(y_predict) /\ ~PairedNaN)
        => /\ pc # "raised"
           /\ pc = "returned"
                 => /\ pos = Cardinality(Paired)
                    /\ file = <<Header>> \o ExpectedLines(Cardinality(Paired))

C10_Witness ==
    /\ pc = "returned"
    /\ Len(user_movie_ids) = 1
    /\ Len(y_predict) = 2
    /\ y_predict[2] = NaN
    /\ Len(file) = 2
====
